---- MODULE Spec2Model ----
(***************************************************************************)
(* Tab/session manager of src/editor.js (simple-monaco-editor): the tab    *)
(* registry, the buffer cache, the debounced save scheduler, the closed-   *)
(* tab history and the activation controller, as a state machine.          *)
(*                                                                         *)
(* Every handler of the source is an operator from a session state (a      *)
(* record with one field per module-level variable of initializeEditor)    *)
(* to the session state it leaves; an action applies one handler to the    *)
(* current state.  Strings the code inspects character by character (tab   *)
(* names, colors) are sequences of one-character strings; strings it only  *)
(* stores and compares (languages, contents) are TLA+ strings.             *)
(***************************************************************************)
EXTENDS Integers, Sequences, FiniteSets, TLC

VARIABLES
  tabs,            \* let tabs: the registry, in order (editor.js:238)
  activeTabId,     \* let activeTabId (editor.js:239)
  models,          \* const models = new Map(): tab id -> buffer content (editor.js:240)
  editorModel,     \* the model bound to the editor: a tab id, or NoId for none
  storage,         \* localStorage: tabsMetaV1, activeTabIdV1, model:<id>, closedHistoryV1, editorLanguage
  closedHistory,   \* let closedHistory, newest first (editor.js:64)
  closedHistoryIsArray, \* Array.isArray(closedHistory): false when the stored JSON was no list
  closedStack,     \* const closedStack, in-memory only (editor.js:430)
  saveTimeouts,    \* const saveTimeouts = new Map(): tab id -> timer handle (editor.js:368)
  timers,          \* the pending setTimeout callbacks of scheduleSave, in firing order
  renameState,     \* let renameState (editor.js:241)
  pendingRenameId, \* let pendingRenameId (editor.js:242)
  historyPanel,    \* the history panel: hidden flag and the rows renderHistory built
  nextUuid,        \* the next value uuid() returns
  nextHid,         \* the next value crypto.randomUUID() returns for a history entry
  last             \* history variable: the operation that led to this state

vars == <<tabs, activeTabId, models, editorModel, storage, closedHistory,
          closedHistoryIsArray, closedStack,
          saveTimeouts, timers, renameState, pendingRenameId, historyPanel,
          nextUuid, nextHid, last>>

----------------------------------------------------------------------------
(* Bounds of the model *)

\* uuid() is called at most this many times in a run of each specification
MaxIds == 4
MaxSaveIds == 2
MaxMetaIds == 2
MaxHistoryIds == 3
MaxSwitchIds == 2
MaxEvictIds == 26
MaxPanelIds == 4
MaxQuotaIds == 2
MaxReloadIds == 2
MaxFloorIds == 9
MaxDurableIds == 5
MaxRenameIds == 2
MaxCreateIds == 3
MaxJumpIds == 5
MaxCommitIds == 3
MaxColorIds == 3
MaxTamperIds == 3
\* tabs are closed at most this many times in a run of SpecTamper
MaxTamperCloses == 2
\* setItem fails at most this many times in a row
MaxUnknownIds == 3
MaxCancelIds == 2
MaxFailures == 2

----------------------------------------------------------------------------
(* Values *)

NoId == 0
\* what localStorage.getItem returns for a missing key
Null == "<null>"
\* a property read from undefined / a missing property
Undefined == "<undefined>"
UndefinedSeq == <<"<undefined>">>

DEFAULT_TAG_COLOR == <<"#", "8", "E", "8", "E", "9", "3">>
TAG_RED == <<"#", "F", "F", "3", "B", "3", "0">>
TAG_COLORS == {TAG_RED,
               <<"#", "F", "F", "9", "5", "0", "0">>,
               <<"#", "F", "F", "C", "C", "0", "0">>,
               <<"#", "3", "4", "C", "7", "5", "9">>,
               <<"#", "0", "0", "7", "A", "F", "F">>,
               <<"#", "A", "F", "5", "2", "D", "E">>,
               DEFAULT_TAG_COLOR}
MAX_HISTORY == 20
HISTORY_FLOOR == 5
NAME_MAX_LEN == 120

Languages == {"markdown", "javascript"}
Contents == {"", "draft"}
\* what the user can type into the inline rename input
RenameInputs == {<<>>, <<"a">>, <<" ", "a", "^">>}
\* the colors the tab swatch handlers pass to setTabColor
ColorInputs == {TAG_RED, DEFAULT_TAG_COLOR}
\* arguments of setTabColor(id, color): palette members in lower case and with
\* spaces around, hex colors of 3 and 6 digits, a string that is no color, no string
ColorArgs == {<<" ", "#", "f", "f", "3", "b", "3", "0", " ">>,
              DEFAULT_TAG_COLOR,
              <<"#", "1", "2", "3">>,
              <<"#", "1", "2", "3", "4", "5", "6">>,
              <<"r", "e", "d">>,
              UndefinedSeq}
\* the arguments createTab is called with, besides the all-default call
CreateArgs == {[name |-> <<"a">>, language |-> "javascript", value |-> "draft", color |-> TAG_RED]}

defaultContent == ""

----------------------------------------------------------------------------
(* Pure helpers *)

\* "^" stands for any character of [\u0000-\u001F\u007F]
ControlChars == {"^"}
StripControl(s) == SelectSeq(s, LAMBDA c : c \notin ControlChars)

\* name.replace(/\s+/g, ' '): runs of whitespace become one space
RECURSIVE CollapseSpaces(_)
CollapseSpaces(s) ==
  IF Len(s) < 2 THEN s
  ELSE IF Head(s) = " " /\ s[2] = " " THEN CollapseSpaces(Tail(s))
       ELSE <<Head(s)>> \o CollapseSpaces(Tail(s))

RECURSIVE TrimLeft(_)
TrimLeft(s) == IF s # <<>> /\ Head(s) = " " THEN TrimLeft(Tail(s)) ELSE s

RECURSIVE TrimRight(_)
TrimRight(s) ==
  IF s # <<>> /\ s[Len(s)] = " " THEN TrimRight(SubSeq(s, 1, Len(s) - 1)) ELSE s

Trim(s) == TrimRight(TrimLeft(s))

normalizeTabNameMax(input, maxLen) ==
  IF input = UndefinedSeq THEN <<>>
  ELSE LET name == Trim(CollapseSpaces(StripControl(input)))
       IN  IF Len(name) > maxLen THEN Trim(SubSeq(name, 1, maxLen)) ELSE name

normalizeTabName(input) == normalizeTabNameMax(input, NAME_MAX_LEN)

HexDigits == {"0", "1", "2", "3", "4", "5", "6", "7", "8", "9",
              "a", "b", "c", "d", "e", "f", "A", "B", "C", "D", "E", "F"}

ToUpperChar(c) ==
  CASE c = "a" -> "A" [] c = "b" -> "B" [] c = "c" -> "C"
    [] c = "d" -> "D" [] c = "e" -> "E" [] c = "f" -> "F"
    [] OTHER -> c

ToUpper(s) == [i \in 1..Len(s) |-> ToUpperChar(s[i])]

\* /^#([0-9a-f]{3}|[0-9a-f]{6})$/i
IsHexColor(hex) ==
  /\ Len(hex) \in {4, 7}
  /\ hex[1] = "#"
  /\ \A i \in 2..Len(hex) : hex[i] \in HexDigits

normalizeColorOr(input, fallback) ==
  IF input = UndefinedSeq THEN fallback
  ELSE LET hex == Trim(input)
       IN  IF IsHexColor(hex)
           THEN ToUpper(IF Len(hex) = 4
                        THEN <<"#", hex[2], hex[2], hex[3], hex[3], hex[4], hex[4]>>
                        ELSE hex)
           ELSE fallback

normalizeColor(input) == normalizeColorOr(input, DEFAULT_TAG_COLOR)

----------------------------------------------------------------------------
(* Session state: one field per variable *)

NoRename == [tabId |-> NoId, input |-> <<>>]

St == [tabs |-> tabs, activeTabId |-> activeTabId, models |-> models,
       editorModel |-> editorModel, storage |-> storage,
       closedHistory |-> closedHistory, closedHistoryIsArray |-> closedHistoryIsArray,
       closedStack |-> closedStack,
       saveTimeouts |-> saveTimeouts, timers |-> timers,
       renameState |-> renameState, pendingRenameId |-> pendingRenameId,
       historyPanel |-> historyPanel, nextUuid |-> nextUuid, nextHid |-> nextHid]

Install(s) ==
  /\ tabs' = s.tabs
  /\ activeTabId' = s.activeTabId
  /\ models' = s.models
  /\ editorModel' = s.editorModel
  /\ storage' = s.storage
  /\ closedHistory' = s.closedHistory
  /\ closedHistoryIsArray' = s.closedHistoryIsArray
  /\ closedStack' = s.closedStack
  /\ saveTimeouts' = s.saveTimeouts
  /\ timers' = s.timers
  /\ renameState' = s.renameState
  /\ pendingRenameId' = s.pendingRenameId
  /\ historyPanel' = s.historyPanel
  /\ nextUuid' = s.nextUuid
  /\ nextHid' = s.nextHid

\* the session is in state s
Holds(s) ==
  /\ tabs = s.tabs
  /\ activeTabId = s.activeTabId
  /\ models = s.models
  /\ editorModel = s.editorModel
  /\ storage = s.storage
  /\ closedHistory = s.closedHistory
  /\ closedHistoryIsArray = s.closedHistoryIsArray
  /\ closedStack = s.closedStack
  /\ saveTimeouts = s.saveTimeouts
  /\ timers = s.timers
  /\ renameState = s.renameState
  /\ pendingRenameId = s.pendingRenameId
  /\ historyPanel = s.historyPanel
  /\ nextUuid = s.nextUuid
  /\ nextHid = s.nextHid

\* Map.set / Map.delete / localStorage.setItem / removeItem on a finite map
MapSet(m, k, v) == [x \in DOMAIN m \cup {k} |-> IF x = k THEN v ELSE m[x]]
MapDelete(m, k) == [x \in DOMAIN m \ {k} |-> m[x]]
EmptyMap == [x \in {} |-> NoId]

\* Array.prototype.splice(i, 1), i counted from 1
RemoveAt(seq, i) ==
  IF i \in 1..Len(seq) THEN SubSeq(seq, 1, i - 1) \o SubSeq(seq, i + 1, Len(seq))
  ELSE seq

\* tabs.findIndex(t => t.id === id), counted from 1; 0 stands for -1
TabIndex(s, id) ==
  IF \E i \in 1..Len(s.tabs) : s.tabs[i].id = id
  THEN CHOOSE i \in 1..Len(s.tabs) :
         /\ s.tabs[i].id = id
         /\ \A j \in 1..(i - 1) : s.tabs[j].id # id
  ELSE 0

HasTab(s, id) == TabIndex(s, id) # 0
getTab(s, id) == s.tabs[TabIndex(s, id)]
TabIds(s) == {s.tabs[i].id : i \in 1..Len(s.tabs)}

\* localStorage.getItem(modelKey(id))
getStoredModel(s, id) ==
  IF id \in DOMAIN s.storage.model THEN s.storage.model[id] ELSE Null

persistTabs(s) == [s EXCEPT !.storage.tabsMeta = s.tabs, !.storage.json.tabsMeta = "list"]

setTabDirty(s, id, dirty) ==
  IF HasTab(s, id)
  THEN [s EXCEPT !.tabs[TabIndex(s, id)].dirty = IF dirty THEN "true" ELSE "false"]
  ELSE s

ensureModel(s, tab) ==
  IF tab.id \in DOMAIN s.models THEN s
  ELSE LET stored == getStoredModel(s, tab.id)
           value == IF stored = Null THEN defaultContent ELSE stored
       IN  [s EXCEPT !.models = MapSet(s.models, tab.id, value)]

\* renameTab without the return when the name is unchanged
renameTabAlwaysPersists(s, id, newName) ==
  IF ~HasTab(s, id) THEN s
  ELSE LET normalized == normalizeTabName(newName)
       IN  persistTabs([s EXCEPT !.tabs[TabIndex(s, id)].name = normalized])

\* renameTab without persistTabs()
renameTabNoPersist(s, id, newName) ==
  IF ~HasTab(s, id) THEN s
  ELSE LET normalized == normalizeTabName(newName)
       IN  IF getTab(s, id).name = normalized THEN s
           ELSE [s EXCEPT !.tabs[TabIndex(s, id)].name = normalized]

renameTab(s, id, newName) ==
  IF ~HasTab(s, id) THEN s
  ELSE LET normalized == normalizeTabName(newName)
       IN  IF getTab(s, id).name = normalized THEN s
           ELSE persistTabs([s EXCEPT !.tabs[TabIndex(s, id)].name = normalized])

\* commitRename that ends the rename without renameTab
commitRenameDiscards(s) ==
  IF s.renameState = NoRename THEN s ELSE [s EXCEPT !.renameState = NoRename]

commitRename(s) ==
  IF s.renameState = NoRename THEN s
  ELSE LET rs == s.renameState
           s1 == [s EXCEPT !.renameState = NoRename]
       IN  IF HasTab(s1, rs.tabId) THEN renameTab(s1, rs.tabId, rs.input) ELSE s1

\* cancelRename that keeps the typed text, as commitRename does
cancelRenameCommits(s) ==
  IF s.renameState = NoRename THEN s
  ELSE LET rs == s.renameState
           s1 == [s EXCEPT !.renameState = NoRename]
       IN  IF HasTab(s1, rs.tabId) THEN renameTab(s1, rs.tabId, rs.input) ELSE s1

cancelRename(s) ==
  IF s.renameState = NoRename THEN s ELSE [s EXCEPT !.renameState = NoRename]

\* the tab's .name span is in the DOM unless the rename input has replaced it
HasNameEl(s, id) == HasTab(s, id) /\ s.renameState.tabId # id

startInlineRename(s, tab) ==
  IF s.renameState # NoRename THEN s
  ELSE [s EXCEPT !.renameState = [tabId |-> tab.id, input |-> tab.name]]

\* editor.focus() takes the focus from the rename input, whose blur listener
\* (startInlineRename) commits the rename
focusEditorAtEnd(s) == commitRename(s)

updateTabbar(s) == IF s.renameState # NoRename THEN commitRename(s) ELSE s

\* setActive without editor.setModel(model)
setActiveNoRebind(s, id) ==
  IF id = NoId THEN s
  ELSE LET s1 == IF s.renameState # NoRename /\ s.renameState.tabId # id
                 THEN commitRename(s) ELSE s
           s2 == [s1 EXCEPT !.activeTabId = id, !.storage.active = id]
       IN  IF ~HasTab(s2, id) THEN s2
           ELSE focusEditorAtEnd(ensureModel(s2, getTab(s2, id)))

setActive(s, id) ==
  IF id = NoId THEN s
  ELSE LET s1 == IF s.renameState # NoRename /\ s.renameState.tabId # id
                 THEN commitRename(s) ELSE s
           s2 == [s1 EXCEPT !.activeTabId = id, !.storage.active = id]
       IN  IF ~HasTab(s2, id) THEN s2   \* ensureModel(undefined) throws
           ELSE LET tab == getTab(s2, id)
                    s3 == [ensureModel(s2, tab) EXCEPT !.editorModel = id]
                IN  IF s3.pendingRenameId = id
                    THEN LET s4 == [s3 EXCEPT !.pendingRenameId = NoId]
                         IN  IF HasNameEl(s4, id) THEN startInlineRename(s4, tab) ELSE s4
                    ELSE focusEditorAtEnd(s3)

----------------------------------------------------------------------------
(* Closed-tab history *)

\* the number of times in a row setItem(LS_HISTORY, ...) is about to throw in the
\* handler that runs on s (a handler that runs on St alone meets no failure)
Failures(s) == IF "quota" \in DOMAIN s THEN s.quota ELSE 0

\* persistHistory with the loop running down to an empty history
persistHistoryNoFloor(s) ==
  LET k == Failures(s)
      n == Len(s.closedHistory)
  IN  IF k = 0 THEN [s EXCEPT !.storage.history = s.closedHistory, !.storage.json.history = "list"]
      ELSE IF n >= k
           THEN LET kept == SubSeq(s.closedHistory, 1, n - k)
                IN  [s EXCEPT !.closedHistory = kept, !.storage.history = kept,
                              !.storage.json.history = "list", !.quota = 0]
           ELSE [s EXCEPT !.closedHistory = <<>>, !.quota = k - n - 1]

\* persistHistory: setItem, and when it throws pop the oldest entry and try again
\* while more than 5 entries are left
persistHistory(s) ==
  LET k == Failures(s)
      n == Len(s.closedHistory)
      room == IF n > HISTORY_FLOOR THEN n - HISTORY_FLOOR ELSE 0
  IN  IF k = 0 THEN [s EXCEPT !.storage.history = s.closedHistory, !.storage.json.history = "list"]
      ELSE IF room >= k
           THEN LET kept == SubSeq(s.closedHistory, 1, n - k)
                IN  [s EXCEPT !.closedHistory = kept, !.storage.history = kept,
                              !.storage.json.history = "list", !.quota = 0]
           ELSE [s EXCEPT !.closedHistory = SubSeq(@, 1, n - room), !.quota = k - room - 1]

\* closedHistory.length = MAX_HISTORY when longer
Truncate(seq, n) == IF Len(seq) > n THEN SubSeq(seq, 1, n) ELSE seq

\* pushClosedHistory without the cut to MAX_HISTORY
pushClosedHistoryNoLimit(s, entry) ==
  LET rec == [hid |-> entry.hid,
              name |-> normalizeTabName(entry.name),
              language |-> IF entry.language = Undefined THEN "markdown" ELSE entry.language,
              value |-> IF entry.value \in {Null, Undefined} THEN "" ELSE entry.value,
              color |-> normalizeColor(entry.color)]
  IN  persistHistory([s EXCEPT !.closedHistory = <<rec>> \o s.closedHistory])

pushClosedHistory(s, entry) ==
  LET rec == [hid |-> entry.hid,
              name |-> normalizeTabName(entry.name),
              language |-> IF entry.language = Undefined THEN "markdown" ELSE entry.language,
              value |-> IF entry.value \in {Null, Undefined} THEN "" ELSE entry.value,
              color |-> normalizeColor(entry.color)]
  IN  persistHistory([s EXCEPT !.closedHistory = Truncate(<<rec>> \o s.closedHistory, MAX_HISTORY)])

\* closedHistory.findIndex(r => r._hid === hid), counted from 1; 0 stands for -1
HistoryIndex(s, hid) ==
  IF \E i \in 1..Len(s.closedHistory) : s.closedHistory[i].hid = hid
  THEN CHOOSE i \in 1..Len(s.closedHistory) :
         /\ s.closedHistory[i].hid = hid
         /\ \A j \in 1..(i - 1) : s.closedHistory[j].hid # hid
  ELSE 0

removeHistoryByHid(s, hid) ==
  LET idx == HistoryIndex(s, hid)
  IN  IF idx > 0
      THEN persistHistory([s EXCEPT !.closedHistory = RemoveAt(s.closedHistory, idx)])
      ELSE s

\* renderHistory: one row per entry, each closing over its index and its item
renderHistory(s) == [s EXCEPT !.historyPanel.rows = s.closedHistory]

----------------------------------------------------------------------------
(* Tab registry *)

\* value ?? defaultContent()
OrDefaultContent(value) == IF value \in {Null, Undefined} THEN defaultContent ELSE value

\* localStorage.getItem('editorLanguage') || 'markdown'
defaultLanguage(s) == IF s.storage.lang = Null THEN "markdown" ELSE s.storage.lang

\* createTab taking the tab's position as its id instead of uuid()
createTabIndexId(s, name, language, value, color) ==
  LET s1 == commitRename(s)
      id == Len(s1.tabs) + 1
      tab == [id |-> id, name |-> normalizeTabName(name), language |-> language,
              color |-> normalizeColor(color), dirty |-> "unset"]
      s2 == [s1 EXCEPT !.nextUuid = @ + 1, !.tabs = Append(s1.tabs, tab)]
      s3 == persistTabs(s2)
      s4 == [s3 EXCEPT !.storage.model = MapSet(s3.storage.model, id, value)]
  IN  setActive(updateTabbar(s4), id)

\* createTab without localStorage.setItem(modelKey(id), value)
createTabNoSeed(s, name, language, value, color) ==
  LET s1 == commitRename(s)
      id == s1.nextUuid
      tab == [id |-> id, name |-> normalizeTabName(name), language |-> language,
              color |-> normalizeColor(color), dirty |-> "unset"]
      s2 == [s1 EXCEPT !.nextUuid = id + 1, !.tabs = Append(s1.tabs, tab)]
      s3 == persistTabs(s2)
  IN  setActive(updateTabbar(s3), id)

createTab(s, name, language, value, color) ==
  LET s1 == commitRename(s)
      id == s1.nextUuid
      tab == [id |-> id, name |-> normalizeTabName(name), language |-> language,
              color |-> normalizeColor(color), dirty |-> "unset"]
      s2 == [s1 EXCEPT !.nextUuid = id + 1, !.tabs = Append(s1.tabs, tab)]
      s3 == persistTabs(s2)
      s4 == [s3 EXCEPT !.storage.model = MapSet(s3.storage.model, id, value)]
  IN  setActive(updateTabbar(s4), id)

\* createTab(last.name, last.language, last.value): the color argument left out
createTabFromNoColor(s, item) ==
  createTab(s,
            IF item.name = UndefinedSeq THEN <<>> ELSE item.name,
            IF item.language = Undefined THEN defaultLanguage(s) ELSE item.language,
            OrDefaultContent(item.value),
            DEFAULT_TAG_COLOR)

\* createTab(last.name, last.language, ...): an undefined argument takes its default
createTabFrom(s, item) ==
  createTab(s,
            IF item.name = UndefinedSeq THEN <<>> ELSE item.name,
            IF item.language = Undefined THEN defaultLanguage(s) ELSE item.language,
            OrDefaultContent(item.value),
            IF item.color = UndefinedSeq THEN DEFAULT_TAG_COLOR ELSE item.color)

\* { ...t, value, _hid }: the fields of the closed tab that are read later
histObject(s, id, value, hid) ==
  IF HasTab(s, id)
  THEN LET t == getTab(s, id)
       IN  [hid |-> hid, name |-> t.name, language |-> t.language,
            value |-> value, color |-> t.color]
  ELSE [hid |-> hid, name |-> UndefinedSeq, language |-> Undefined,
        value |-> value, color |-> UndefinedSeq]

\* closeTab's sole-tab branch without the replacement tab
closeSoleTabNoReplacement(s, id) ==
  LET val == getStoredModel(s, id)
      hist == histObject(s, id, val, s.nextHid)
      s1 == [s EXCEPT !.nextHid = @ + 1, !.closedStack = Append(s.closedStack, hist)]
      s2 == pushClosedHistory(s1, hist)
      s3 == [s2 EXCEPT !.storage.model = MapDelete(s2.storage.model, id)]
  IN  updateTabbar(persistTabs([s3 EXCEPT !.tabs = <<>>]))

closeSoleTab(s, id) ==
  LET val == getStoredModel(s, id)
      hist == histObject(s, id, val, s.nextHid)
      s1 == [s EXCEPT !.nextHid = @ + 1, !.closedStack = Append(s.closedStack, hist)]
      s2 == pushClosedHistory(s1, hist)
      s3 == [s2 EXCEPT !.storage.model = MapDelete(s2.storage.model, id)]
      newId == s3.nextUuid
      tab == [id |-> newId, name |-> <<>>,
              language |-> IF hist.language = Undefined THEN "markdown" ELSE hist.language,
              color |-> normalizeColor(hist.color), dirty |-> "unset"]
      s4 == persistTabs([s3 EXCEPT !.nextUuid = newId + 1, !.tabs = <<tab>>])
  IN  setActive(updateTabbar(s4), newId)

\* closeTab without the migration of the activation
closeOtherTabKeepActive(s, id) ==
  LET idx == TabIndex(s, id)
      hasModel == id \in DOMAIN s.models
      s1 == IF hasModel
            THEN [s EXCEPT !.models = MapDelete(s.models, id),
                           !.editorModel = IF s.editorModel = id THEN NoId ELSE @]
            ELSE s
      content == IF hasModel THEN s.models[id] ELSE getStoredModel(s, id)
      s2 == [s1 EXCEPT !.storage.model = MapDelete(s1.storage.model, id)]
      hist == histObject(s2, id, content, s2.nextHid)
      s3 == pushClosedHistory([s2 EXCEPT !.nextHid = @ + 1,
                                         !.closedStack = Append(s2.closedStack, hist)], hist)
  IN  focusEditorAtEnd(updateTabbar(persistTabs([s3 EXCEPT !.tabs = RemoveAt(s3.tabs, idx)])))

\* closeTab preferring the previous tab: tabs[idx - 1] || tabs[idx]
closeOtherTabPrefersPrevious(s, id) ==
  LET idx == TabIndex(s, id)
      hasModel == id \in DOMAIN s.models
      s1 == IF hasModel
            THEN [s EXCEPT !.models = MapDelete(s.models, id),
                           !.editorModel = IF s.editorModel = id THEN NoId ELSE @]
            ELSE s
      content == IF hasModel THEN s.models[id] ELSE getStoredModel(s, id)
      s2 == [s1 EXCEPT !.storage.model = MapDelete(s1.storage.model, id)]
      hist == histObject(s2, id, content, s2.nextHid)
      s3 == pushClosedHistory([s2 EXCEPT !.nextHid = @ + 1,
                                         !.closedStack = Append(s2.closedStack, hist)], hist)
      closingActive == id = s3.activeTabId
      s4 == updateTabbar(persistTabs([s3 EXCEPT !.tabs = RemoveAt(s3.tabs, idx)]))
  IN  focusEditorAtEnd(IF closingActive
                       THEN setActive(s4, s4.tabs[IF idx > 1 THEN idx - 1 ELSE idx].id)
                       ELSE s4)

\* closeTab taking the content from localStorage, as the sole-tab branch does
closeOtherTabStoredContent(s, id) ==
  LET idx == TabIndex(s, id)
      hasModel == id \in DOMAIN s.models
      \* m.dispose(): the editor drops a disposed model
      s1 == IF hasModel
            THEN [s EXCEPT !.models = MapDelete(s.models, id),
                           !.editorModel = IF s.editorModel = id THEN NoId ELSE @]
            ELSE s
      content == getStoredModel(s, id)
      s2 == [s1 EXCEPT !.storage.model = MapDelete(s1.storage.model, id)]
      hist == histObject(s2, id, content, s2.nextHid)
      s3 == pushClosedHistory([s2 EXCEPT !.nextHid = @ + 1,
                                         !.closedStack = Append(s2.closedStack, hist)], hist)
      closingActive == id = s3.activeTabId
      s4 == updateTabbar(persistTabs([s3 EXCEPT !.tabs = RemoveAt(s3.tabs, idx)]))
  IN  focusEditorAtEnd(IF closingActive
                       THEN setActive(s4, s4.tabs[IF idx <= Len(s4.tabs) THEN idx ELSE idx - 1].id)
                       ELSE s4)

\* closeTab with models.clear() in the place of models.delete(id)
closeOtherTabClearsModels(s, id) ==
  LET idx == TabIndex(s, id)
      hasModel == id \in DOMAIN s.models
      s1 == IF hasModel
            THEN [s EXCEPT !.models = EmptyMap, !.editorModel = NoId]
            ELSE s
      content == IF hasModel THEN s.models[id] ELSE getStoredModel(s, id)
      s2 == [s1 EXCEPT !.storage.model = MapDelete(s1.storage.model, id)]
      hist == histObject(s2, id, content, s2.nextHid)
      s3 == pushClosedHistory([s2 EXCEPT !.nextHid = @ + 1,
                                         !.closedStack = Append(s2.closedStack, hist)], hist)
      closingActive == id = s3.activeTabId
      s4 == updateTabbar(persistTabs([s3 EXCEPT !.tabs = RemoveAt(s3.tabs, idx)]))
  IN  focusEditorAtEnd(IF closingActive
                       THEN setActive(s4, s4.tabs[IF idx <= Len(s4.tabs) THEN idx ELSE idx - 1].id)
                       ELSE s4)

closeOtherTab(s, id) ==
  LET idx == TabIndex(s, id)
      hasModel == id \in DOMAIN s.models
      \* m.dispose(): the editor drops a disposed model
      s1 == IF hasModel
            THEN [s EXCEPT !.models = MapDelete(s.models, id),
                           !.editorModel = IF s.editorModel = id THEN NoId ELSE @]
            ELSE s
      content == IF hasModel THEN s.models[id] ELSE getStoredModel(s, id)
      s2 == [s1 EXCEPT !.storage.model = MapDelete(s1.storage.model, id)]
      hist == histObject(s2, id, content, s2.nextHid)
      s3 == pushClosedHistory([s2 EXCEPT !.nextHid = @ + 1,
                                         !.closedStack = Append(s2.closedStack, hist)], hist)
      closingActive == id = s3.activeTabId
      s4 == updateTabbar(persistTabs([s3 EXCEPT !.tabs = RemoveAt(s3.tabs, idx)]))
  IN  focusEditorAtEnd(IF closingActive
                       THEN setActive(s4, s4.tabs[IF idx <= Len(s4.tabs) THEN idx ELSE idx - 1].id)
                       ELSE s4)

\* closeTab's sole-tab branch up to closedHistory.unshift(rec), which throws a
\* TypeError when closedHistory is no list
closeSoleTabThrows(s, id) ==
  LET val == getStoredModel(s, id)
      hist == histObject(s, id, val, s.nextHid)
  IN  [s EXCEPT !.nextHid = @ + 1, !.closedStack = Append(s.closedStack, hist)]

\* closeTab's other branch up to closedHistory.unshift(rec), which throws a
\* TypeError when closedHistory is no list
closeOtherTabThrows(s, id) ==
  LET hasModel == id \in DOMAIN s.models
      s1 == IF hasModel
            THEN [s EXCEPT !.models = MapDelete(s.models, id),
                           !.editorModel = IF s.editorModel = id THEN NoId ELSE @]
            ELSE s
      content == IF hasModel THEN s.models[id] ELSE getStoredModel(s, id)
      s2 == [s1 EXCEPT !.storage.model = MapDelete(s1.storage.model, id)]
      hist == histObject(s2, id, content, s2.nextHid)
  IN  [s2 EXCEPT !.nextHid = @ + 1, !.closedStack = Append(s2.closedStack, hist)]

closeTab(s, id) ==
  LET s1 == commitRename(s)
  IN  IF Len(s1.tabs) = 1
      THEN IF s1.closedHistoryIsArray THEN closeSoleTab(s1, id) ELSE closeSoleTabThrows(s1, id)
      ELSE IF TabIndex(s1, id) = 0 THEN s1
      ELSE IF s1.closedHistoryIsArray THEN closeOtherTab(s1, id) ELSE closeOtherTabThrows(s1, id)

reopenClosedTabNoPersist(s) ==
  LET s1 == commitRename(s)
  IN  IF s1.closedStack # <<>>
      THEN LET lastRec == s1.closedStack[Len(s1.closedStack)]
               s2 == [s1 EXCEPT !.closedStack = SubSeq(@, 1, Len(@) - 1)]
           IN  createTabFrom(removeHistoryByHid(s2, lastRec.hid), lastRec)
      ELSE IF s1.closedHistory = <<>> THEN s1
      ELSE LET lastRec == s1.closedHistory[1]
               s2 == [s1 EXCEPT !.closedHistory = Tail(@)]
           IN  createTabFrom(s2, lastRec)

\* closedHistory.findIndex and closedHistory.shift throw a TypeError when
\* closedHistory is no list: the handler ends there
reopenClosedTab(s) ==
  LET s1 == commitRename(s)
  IN  IF s1.closedStack # <<>>
      THEN LET lastRec == s1.closedStack[Len(s1.closedStack)]
               s2 == [s1 EXCEPT !.closedStack = SubSeq(@, 1, Len(@) - 1)]
           IN  IF s2.closedHistoryIsArray
               THEN createTabFrom(removeHistoryByHid(s2, lastRec.hid), lastRec)
               ELSE s2
      ELSE IF ~s1.closedHistoryIsArray \/ s1.closedHistory = <<>> THEN s1
      ELSE LET lastRec == s1.closedHistory[1]
               s2 == persistHistory([s1 EXCEPT !.closedHistory = Tail(@)])
           IN  createTabFrom(s2, lastRec)

\* the entry reopenClosedTab reinstates: its _hid, or NoId when it returns early
reopenedHid(s) ==
  IF ~s.closedHistoryIsArray THEN NoId
  ELSE IF s.closedStack # <<>> THEN s.closedStack[Len(s.closedStack)].hid
  ELSE IF s.closedHistory # <<>> THEN s.closedHistory[1].hid ELSE NoId

setTabColor(s, id, color) ==
  IF ~HasTab(s, id) THEN s
  ELSE LET normalized == normalizeColor(color)
       IN  IF getTab(s, id).color = normalized THEN s
           ELSE persistTabs([s EXCEPT !.tabs[TabIndex(s, id)].color = normalized])

\* languageSelect 'change' listener
languageChange(s, lang) ==
  LET tab == getTab(s, s.activeTabId)
      s1 == ensureModel(s, tab)
      s2 == persistTabs([s1 EXCEPT !.tabs[TabIndex(s1, s1.activeTabId)].language = lang])
  IN  [s2 EXCEPT !.storage.lang = lang]

\* requestRename that starts the rename without activating the tab
requestRenameInPlace(s, id) ==
  IF ~HasTab(s, id) THEN s
  ELSE IF s.renameState # NoRename /\ s.renameState.tabId = id THEN s
  ELSE IF HasNameEl(s, id) THEN startInlineRename(s, getTab(s, id)) ELSE s

requestRename(s, id) ==
  IF ~HasTab(s, id) THEN s
  ELSE IF s.renameState # NoRename /\ s.renameState.tabId = id THEN s
  ELSE IF id # s.activeTabId THEN setActive([s EXCEPT !.pendingRenameId = id], id)
  ELSE IF HasNameEl(s, id) THEN startInlineRename(s, getTab(s, id)) ELSE s

\* cycleNext that stops at the last tab
cycleNextNoWrap(s) ==
  LET idx == TabIndex(s, s.activeTabId) - 1
  IN  setActive(s, s.tabs[(IF idx + 1 < Len(s.tabs) THEN idx + 1 ELSE idx) + 1].id)

cycleNext(s) ==
  LET idx == TabIndex(s, s.activeTabId) - 1
  IN  setActive(s, s.tabs[((idx + 1) % Len(s.tabs)) + 1].id)

cyclePrev(s) ==
  LET idx == TabIndex(s, s.activeTabId) - 1
  IN  setActive(s, s.tabs[((idx - 1 + Len(s.tabs)) % Len(s.tabs)) + 1].id)

\* the numeric listener without the special case of key 9
numericSwitchNoLast(s, num) ==
  IF num <= Len(s.tabs) THEN setActive(s, s.tabs[num].id)
  ELSE s

\* the Cmd/Ctrl+Alt+1..9 keydown listener
numericSwitch(s, num) ==
  IF num = 9 THEN setActive(s, s.tabs[Len(s.tabs)].id)
  ELSE IF num <= Len(s.tabs) THEN setActive(s, s.tabs[num].id)
  ELSE s

----------------------------------------------------------------------------
(* Save scheduler *)

UsedHandles(s) ==
  {s.timers[i].h : i \in 1..Len(s.timers)} \cup {s.saveTimeouts[k] : k \in DOMAIN s.saveTimeouts}

\* setTimeout returns a handle that no live or remembered timer has
FreshHandle(s) ==
  CHOOSE h \in 1..(Cardinality(UsedHandles(s)) + 1) :
    /\ h \notin UsedHandles(s)
    /\ \A g \in 1..(h - 1) : g \in UsedHandles(s)

\* the pending timers that will write model:<id>
TimersOf(s, id) == {i \in 1..Len(s.timers) : s.timers[i].id = id}
HasPendingTimer(s, id) == TimersOf(s, id) # {}

clearTimeout(s, h) == [s EXCEPT !.timers = SelectSeq(@, LAMBDA t : t.h # h)]

\* scheduleSave with one timer for the whole editor instead of one per tab
scheduleSaveOneTimer(s) ==
  LET id == s.activeTabId
  IN  IF s.editorModel = NoId THEN s
      ELSE LET value == s.models[s.editorModel]
               to == 1
           IN  [s EXCEPT !.timers = <<[h |-> to, id |-> id, value |-> value]>>,
                         !.saveTimeouts = MapSet(EmptyMap, id, to)]

\* scheduleSave without the clearTimeout of the earlier timer
scheduleSaveNoCancel(s) ==
  LET id == s.activeTabId
  IN  IF s.editorModel = NoId THEN s
      ELSE LET value == s.models[s.editorModel]
               to == FreshHandle(s)
           IN  [s EXCEPT !.timers = Append(@, [h |-> to, id |-> id, value |-> value]),
                         !.saveTimeouts = MapSet(@, id, to)]

scheduleSave(s) ==
  LET id == s.activeTabId
  IN  IF s.editorModel = NoId THEN s
      ELSE LET value == s.models[s.editorModel]
               s1 == IF id \in DOMAIN s.saveTimeouts
                     THEN clearTimeout(s, s.saveTimeouts[id]) ELSE s
               to == FreshHandle(s1)
           IN  [s1 EXCEPT !.timers = Append(@, [h |-> to, id |-> id, value |-> value]),
                          !.saveTimeouts = MapSet(@, id, to)]

\* editor.onDidChangeModelContent listener
onDidChangeModelContent(s) ==
  LET s1 == IF HasTab(s, s.activeTabId) /\ getTab(s, s.activeTabId).dirty # "true"
            THEN setTabDirty(s, s.activeTabId, TRUE) ELSE s
  IN  scheduleSave(s1)

\* the timer callback with the failed write swallowed: the tab is marked clean
saveCallbackSwallows(s, t) ==
  LET s1 == setTabDirty(s, t.id, FALSE)
  IN  [s1 EXCEPT !.saveTimeouts = MapDelete(@, t.id)]

\* the timer callback when localStorage.setItem throws (quota): nothing after the
\* throwing statement runs
saveCallbackThrows(s, t) == s

\* the timer callback without setTabDirty(id, false)
saveCallbackKeepsDirty(s, t) ==
  [s EXCEPT !.storage.model = MapSet(@, t.id, t.value),
            !.saveTimeouts = MapDelete(@, t.id)]

\* the callback scheduleSave passed to setTimeout, for the timer t
saveCallback(s, t) ==
  LET s1 == [s EXCEPT !.storage.model = MapSet(@, t.id, t.value)]
      s2 == setTabDirty(s1, t.id, FALSE)
  IN  [s2 EXCEPT !.saveTimeouts = MapDelete(@, t.id)]

----------------------------------------------------------------------------
(* History panel *)

\* historyBtn click listener
historyToggle(s) ==
  IF s.historyPanel.hidden
  THEN renderHistory([s EXCEPT !.historyPanel.hidden = FALSE])
  ELSE [s EXCEPT !.historyPanel.hidden = TRUE]

\* the rows of a hidden panel cannot be clicked: they are dropped when it hides
hidePanel(s) == [s EXCEPT !.historyPanel = [hidden |-> TRUE, rows |-> <<>>]]

\* title click listener of row i
historyTitleClick(s, i) ==
  LET item == s.historyPanel.rows[i]
      s1 == persistHistory([s EXCEPT !.closedHistory = RemoveAt(@, i)])
  IN  focusEditorAtEnd(hidePanel(createTabFrom(s1, item)))

\* delete click listener of row i
historyDeleteClick(s, i) ==
  renderHistory(persistHistory([s EXCEPT !.closedHistory = RemoveAt(@, i)]))

\* historyClear click listener without persistHistory()
historyClearClickNoPersist(s) ==
  renderHistory([s EXCEPT !.closedHistory = <<>>, !.closedHistoryIsArray = TRUE])

\* historyClear click listener
historyClearClick(s) ==
  renderHistory(persistHistory([s EXCEPT !.closedHistory = <<>>, !.closedHistoryIsArray = TRUE]))

----------------------------------------------------------------------------
(* Initialization from storage *)

\* json: what the text under tabsMetaV1 and under closedHistoryV1 is: "list" for
\* the JSON of a list (or no text at all, with the empty list), "object" for
\* valid JSON of another truthy value such as {}, "unparsable" for text that is no JSON
EmptyStorage == [tabsMeta |-> <<>>, active |-> NoId, model |-> EmptyMap,
                 history |-> <<>>, lang |-> Null,
                 json |-> [tabsMeta |-> "list", history |-> "list"]]

\* the value JSON.parse makes of the text under key
StoredJson(st, key) == [kind |-> st.json[key], list |-> st[key]]
EmptyList == [kind |-> "list", list |-> <<>>]

\* try { return JSON.parse(s); } catch { return fallback; }
safeParse(raw, fallback) == IF raw.kind = "unparsable" THEN fallback ELSE raw

normalizeStoredTab(tab) ==
  [tab EXCEPT !.name = normalizeTabName(@),
              !.color = normalizeColor(@),
              !.language = IF @ = Undefined THEN "markdown" ELSE @]

firstTab(s) ==
  LET id == s.nextUuid
      tab == [id |-> id, name |-> <<>>, language |-> defaultLanguage(s),
              color |-> DEFAULT_TAG_COLOR, dirty |-> "unset"]
      s1 == persistTabs([s EXCEPT !.nextUuid = id + 1, !.tabs = <<tab>>])
  IN  [s1 EXCEPT !.activeTabId = id, !.storage.active = id]

\* initializeEditor with the fallback of the active id to the last tab
initializeEditorLastTab(st, uu, hh) ==
  LET st1 == [st EXCEPT !.lang = IF @ = Null THEN "markdown" ELSE @]
      stored == safeParse(StoredJson(st1, "tabsMeta"), EmptyList)
      \* if (!Array.isArray(tabs)) tabs = [];
      parsed == IF stored.kind = "list" THEN stored.list ELSE <<>>
      \* safeParse(...) || []: a truthy value that is no list stays as it is
      history == safeParse(StoredJson(st1, "history"), EmptyList)
      norm == [i \in 1..Len(parsed) |-> normalizeStoredTab(parsed[i])]
      s0 == [tabs |-> norm, activeTabId |-> st1.active, models |-> EmptyMap,
             editorModel |-> NoId, storage |-> st1,
             closedHistory |-> IF history.kind = "list" THEN history.list ELSE <<>>,
             closedHistoryIsArray |-> history.kind = "list",
             closedStack |-> <<>>,
             saveTimeouts |-> EmptyMap, timers |-> <<>>,
             renameState |-> NoRename, pendingRenameId |-> NoId,
             historyPanel |-> [hidden |-> TRUE, rows |-> <<>>],
             nextUuid |-> uu, nextHid |-> hh]
      s1 == IF norm # parsed THEN persistTabs(s0) ELSE s0
      s2 == IF Len(s1.tabs) = 0 THEN firstTab(s1)
            ELSE IF s1.activeTabId = NoId \/ ~HasTab(s1, s1.activeTabId)
                 THEN [s1 EXCEPT !.activeTabId = s1.tabs[Len(s1.tabs)].id,
                                 !.storage.active = s1.tabs[Len(s1.tabs)].id]
                 ELSE s1
      s3 == ensureModel(s2, getTab(s2, s2.activeTabId))
  IN  setActive(updateTabbar(s3), s3.activeTabId)

\* initializeEditor run on the storage st; uu and hh continue the uuid streams
initializeEditor(st, uu, hh) ==
  LET st1 == [st EXCEPT !.lang = IF @ = Null THEN "markdown" ELSE @]
      stored == safeParse(StoredJson(st1, "tabsMeta"), EmptyList)
      \* if (!Array.isArray(tabs)) tabs = [];
      parsed == IF stored.kind = "list" THEN stored.list ELSE <<>>
      \* safeParse(...) || []: a truthy value that is no list stays as it is
      history == safeParse(StoredJson(st1, "history"), EmptyList)
      norm == [i \in 1..Len(parsed) |-> normalizeStoredTab(parsed[i])]
      s0 == [tabs |-> norm, activeTabId |-> st1.active, models |-> EmptyMap,
             editorModel |-> NoId, storage |-> st1,
             closedHistory |-> IF history.kind = "list" THEN history.list ELSE <<>>,
             closedHistoryIsArray |-> history.kind = "list",
             closedStack |-> <<>>,
             saveTimeouts |-> EmptyMap, timers |-> <<>>,
             renameState |-> NoRename, pendingRenameId |-> NoId,
             historyPanel |-> [hidden |-> TRUE, rows |-> <<>>],
             nextUuid |-> uu, nextHid |-> hh]
      s1 == IF norm # parsed THEN persistTabs(s0) ELSE s0
      s2 == IF Len(s1.tabs) = 0 THEN firstTab(s1)
            ELSE IF s1.activeTabId = NoId \/ ~HasTab(s1, s1.activeTabId)
                 THEN [s1 EXCEPT !.activeTabId = s1.tabs[1].id,
                                 !.storage.active = s1.tabs[1].id]
                 ELSE s1
      s3 == ensureModel(s2, getTab(s2, s2.activeTabId))
  IN  setActive(updateTabbar(s3), s3.activeTabId)

----------------------------------------------------------------------------
(* History variable *)

NoSnap == [id |-> NoId, name |-> <<>>, language |-> "", color |-> <<>>,
           content |-> "", dirty |-> "unset"]

\* what the user sees of tab id: its metadata and the text of its document
TabSnap(s, id) ==
  IF ~HasTab(s, id) THEN NoSnap
  ELSE LET t == getTab(s, id)
       IN  [id |-> id, name |-> t.name, language |-> t.language, color |-> t.color,
            content |-> IF id \in DOMAIN s.models THEN s.models[id]
                        ELSE OrDefaultContent(getStoredModel(s, id)),
            dirty |-> t.dirty]

\* op: the handler that ran; id: the tab it was about, or the tab it made; from: the
\* tab that was active before; hid: the history entry it pushed or took; n: the
\* number of tabs before (for historyClear: the number of entries before; for an edit: 1 when it came within the debounce window
\* of an earlier one; for a timer: 2 when it fired right after such an edit);
\* snap: the tab it closed, as it was; chain: 1 after createTab, 2 after closeTab
\* of the tab just created, 3 after a reopen right after (and 1 after a save that
\* failed, 2 after the next edit of that tab, 3 after the save that follows);
\* for renameTab, n is 1 when the name given normalizes to the name the tab has;
\* for reopen, n is 1 when it is the first operation after a reload; for reload,
\* id is the active id that was stored; for createTab, n is 1 when a rename was
\* in progress and snap.content is the initial content it was given; for
\* numericJump, n is the digit of the key; for numericSwitch, n is 1 when a
\* rename was in progress; for escape, n is 1 when the text typed would have
\* changed the name
Op(op, id) == [op |-> op, id |-> id, from |-> activeTabId, hid |-> NoId, n |-> 0,
               chain |-> 0, snap |-> NoSnap]

----------------------------------------------------------------------------
(* Actions *)

Init ==
  /\ Holds(initializeEditor(EmptyStorage, 1, 1))
  /\ last = Op("init", NoId)

Renaming == renameState # NoRename
\* uuid() may be called once more in a run of at most max calls
CanAllocate(max) == nextUuid <= max

\* Cmd/Ctrl+T, or the add-tab button when no rename input has the focus
CreateTab(max) ==
  /\ CanAllocate(max)
  /\ Install(createTab(St, <<>>, defaultLanguage(St), defaultContent, DEFAULT_TAG_COLOR))
  /\ last' = [Op("createTab", nextUuid) EXCEPT
                !.chain = 1,
                !.n = IF Renaming THEN 1 ELSE 0,
                !.snap = [NoSnap EXCEPT !.content = defaultContent]]

\* createTab called with arguments
CreateTabWith(max) ==
  /\ CanAllocate(max)
  /\ \E a \in CreateArgs :
       /\ Install(createTab(St, a.name, a.language, a.value, a.color))
       /\ last' = [Op("createTab", nextUuid) EXCEPT
                     !.chain = 1,
                     !.n = IF Renaming THEN 1 ELSE 0,
                     !.snap = [NoSnap EXCEPT !.content = a.value]]

CloseStep(id, max) ==
  /\ Len(tabs) = 1 => CanAllocate(max)
  /\ Install(closeTab(St, id))
  /\ last' = [Op("closeTab", id) EXCEPT
                !.hid = nextHid,
                !.n = Len(tabs),
                !.chain = IF last.op = "createTab" /\ last.id = id THEN 2 ELSE 0,
                !.snap = TabSnap(commitRename(St), id)]

\* Cmd/Ctrl+W closes the active tab
CloseActiveTab(max) == CloseStep(activeTabId, max)

\* Cmd/Ctrl+W while the write of the history fails k times in a row
CloseActiveTabQuota(max) ==
  /\ Len(tabs) = 1 => CanAllocate(max)
  /\ \E k \in 1..MaxFailures :
       /\ Install(closeTab(St @@ [quota |-> k], activeTabId))
       /\ last' = [Op("closeTabQuota", activeTabId) EXCEPT !.hid = nextHid, !.n = k]

\* the close button of a tab
CloseTabButton(max) ==
  /\ ~Renaming
  /\ \E id \in TabIds(St) : CloseStep(id, max)

\* Cmd/Ctrl+Shift+T
Reopen(max) ==
  /\ reopenedHid(St) # NoId => CanAllocate(max)
  /\ Install(reopenClosedTab(St))
  /\ LET chained == last.op = "closeTab" /\ last.chain = 2
     IN  last' = [Op("reopen", IF reopenedHid(St) # NoId THEN nextUuid ELSE NoId) EXCEPT
                    !.hid = reopenedHid(St),
                    !.n = IF last.op = "reload" THEN 1 ELSE 0,
                    !.chain = IF chained THEN 3 ELSE 0,
                    !.snap = IF chained THEN last.snap ELSE NoSnap]

\* a click on a tab
Activate ==
  /\ ~Renaming
  /\ \E id \in TabIds(St) :
       /\ Install(setActive(St, id))
       /\ last' = Op("setActive", id)

CycleNext ==
  /\ Install(cycleNext(St))
  /\ last' = Op("cycleNext", activeTabId)

CyclePrev ==
  /\ Install(cyclePrev(St))
  /\ last' = Op("cyclePrev", activeTabId)

NumericSwitch ==
  \E num \in 1..9 :
    /\ Install(numericSwitch(St, num))
    /\ last' = [Op("numericSwitch", activeTabId) EXCEPT !.n = IF Renaming THEN 1 ELSE 0]

\* Cmd/Ctrl+Alt+1..9, with the digit kept in the history variable
NumericJump ==
  \E num \in 1..9 :
    /\ Install(numericSwitch(St, num))
    /\ last' = [Op("numericJump", activeTabId) EXCEPT !.n = num]

\* the user changes the text of the document shown in the editor
Edit ==
  /\ ~Renaming
  /\ editorModel # NoId
  /\ \E c \in Contents \ {models[editorModel]} :
       /\ Install(onDidChangeModelContent([St EXCEPT !.models[editorModel] = c]))
       /\ last' = [Op("edit", activeTabId) EXCEPT
                      !.n = IF HasPendingTimer(St, activeTabId) THEN 1 ELSE 0,
                      !.chain = IF last.op = "timerFireThrows" /\ last.id = activeTabId
                                THEN 2 ELSE 0]

\* the earliest pending save timer fires
TimerFire ==
  /\ timers # <<>>
  /\ Install(saveCallback([St EXCEPT !.timers = Tail(@)], Head(timers)))
  /\ last' = [Op("timerFire", Head(timers).id) EXCEPT
                !.n = IF last.op = "edit" /\ last.n = 1 /\ last.id = Head(timers).id
                      THEN 2 ELSE 0,
                !.chain = IF last.op = "edit" /\ last.chain = 2 /\ last.id = Head(timers).id
                          THEN 3 ELSE 0]

\* the earliest pending save timer fires and its storage write fails
TimerFireThrows ==
  /\ timers # <<>>
  /\ Install(saveCallbackThrows([St EXCEPT !.timers = Tail(@)], Head(timers)))
  /\ last' = [Op("timerFireThrows", Head(timers).id) EXCEPT !.chain = 1]

\* the page is loaded again: everything but localStorage is lost
Reload ==
  /\ Install(initializeEditor(storage, nextUuid, nextHid))
  /\ last' = Op("reload", storage.active)

\* the texts another page or the developer tools can leave in localStorage: no
\* active id or the id of no stored tab, and under tabsMetaV1 or closedHistoryV1
\* valid JSON that is no list or text that is no JSON
StoredIds(st) == {st.tabsMeta[i].id : i \in 1..Len(st.tabsMeta)}
CorruptKinds == {"object", "unparsable"}
Tampered(st, uu) ==
  {[st EXCEPT !.active = a] : a \in ({NoId} \cup (1..(uu - 1))) \ StoredIds(st)}
    \cup {[st EXCEPT !.tabsMeta = <<>>, !.json.tabsMeta = k] : k \in CorruptKinds}
    \cup {[st EXCEPT !.history = <<>>, !.json.history = k] : k \in CorruptKinds}

\* the stored registry, active id and history are the ones the page wrote
Untampered(st) ==
  /\ st.json.tabsMeta = "list" /\ st.json.history = "list"
  /\ st.active \in StoredIds(st)

\* localStorage is changed from outside the page, one key at a time
Tamper ==
  /\ Untampered(storage)
  /\ \E st \in Tampered(storage, nextUuid) \ {storage} :
       /\ storage' = st
       /\ UNCHANGED <<tabs, activeTabId, models, editorModel, closedHistory,
                      closedHistoryIsArray, closedStack, saveTimeouts, timers,
                      renameState, pendingRenameId, historyPanel, nextUuid, nextHid>>
  /\ last' = Op("tamper", NoId)

\* renameTab(id, newName) called with a name
RenameTab ==
  /\ ~Renaming
  /\ \E id \in TabIds(St), name \in RenameInputs :
       /\ Install(renameTab(St, id, name))
       /\ last' = [Op("renameTab", id) EXCEPT
                      !.n = IF normalizeTabName(name) = getTab(St, id).name THEN 1 ELSE 0]

\* F2, or a double click on a tab
RequestRename ==
  \E id \in TabIds(St) :
    /\ Renaming => id = activeTabId
    /\ Install(requestRename(St, id))
    /\ last' = Op("requestRename", id)

\* the user types in the rename input
TypeRename ==
  /\ Renaming
  /\ \E text \in RenameInputs \ {renameState.input} :
       /\ Install([St EXCEPT !.renameState.input = text])
       /\ last' = Op("typeRename", renameState.tabId)

\* Enter in the rename input, or the input loses the focus
CommitRename ==
  /\ Renaming
  /\ Install(commitRename(St))
  /\ last' = Op("commitRename", renameState.tabId)

\* Escape: the input's keydown listener, else the window's
Escape ==
  /\ Renaming \/ ~historyPanel.hidden
  /\ Install(IF Renaming THEN cancelRename(St) ELSE hidePanel(St))
  /\ last' = [Op("escape", renameState.tabId) EXCEPT
                !.n = IF Renaming /\ HasTab(St, renameState.tabId)
                         /\ normalizeTabName(renameState.input) # getTab(St, renameState.tabId).name
                      THEN 1 ELSE 0]

SetTabColor ==
  /\ ~Renaming
  /\ \E id \in TabIds(St), color \in ColorInputs :
       /\ Install(setTabColor(St, id, color))
       /\ last' = Op("setTabColor", id)

\* setTabColor(id, color) called with a color
SetTabColorWith ==
  /\ ~Renaming
  /\ \E id \in TabIds(St), color \in ColorArgs :
       /\ Install(setTabColor(St, id, color))
       /\ last' = Op("setTabColor", id)

LanguageChange ==
  /\ ~Renaming
  /\ \E lang \in Languages \ {getTab(St, activeTabId).language} :
       /\ Install(languageChange(St, lang))
       /\ last' = Op("languageChange", activeTabId)

HistoryToggle ==
  /\ ~Renaming
  /\ Install(historyToggle(St))
  /\ last' = Op("historyToggle", NoId)

\* a click outside the panel
ClickAway ==
  /\ ~Renaming
  /\ ~historyPanel.hidden
  /\ Install(hidePanel(St))
  /\ last' = Op("clickAway", NoId)

HistoryTitleClick(max) ==
  /\ ~Renaming
  /\ ~historyPanel.hidden
  /\ CanAllocate(max)
  /\ \E i \in 1..Len(historyPanel.rows) :
       /\ Install(historyTitleClick(St, i))
       /\ last' = [Op("historyTitleClick", nextUuid) EXCEPT !.hid = historyPanel.rows[i].hid]

HistoryDeleteClick ==
  /\ ~Renaming
  /\ ~historyPanel.hidden
  /\ \E i \in 1..Len(historyPanel.rows) :
       /\ Install(historyDeleteClick(St, i))
       /\ last' = [Op("historyDeleteClick", NoId) EXCEPT !.hid = historyPanel.rows[i].hid]

HistoryClear ==
  /\ ~Renaming
  /\ ~historyPanel.hidden
  /\ Install(historyClearClick(St))
  /\ last' = [Op("historyClear", NoId) EXCEPT !.n = Len(closedHistory)]

\* the tab registry and the activation controller
Next ==
  \/ CreateTab(MaxIds)
  \/ CloseActiveTab(MaxIds)
  \/ CloseTabButton(MaxIds)
  \/ Reopen(MaxIds)
  \/ Activate
  \/ CycleNext
  \/ CyclePrev
  \/ NumericSwitch
  \/ Reload

Spec == Init /\ [][Next]_vars

\* the save scheduler
NextSave ==
  \/ CreateTab(MaxSaveIds)
  \/ CloseActiveTab(MaxSaveIds)
  \/ CloseTabButton(MaxSaveIds)
  \/ Edit
  \/ TimerFire
  \/ Reload

SpecSave == Init /\ [][NextSave]_vars

\* tab metadata: rename, color, language, and what reaches tabsMetaV1
NextMeta ==
  \/ CreateTab(MaxMetaIds)
  \/ CloseActiveTab(MaxMetaIds)
  \/ Reload
  \/ RequestRename
  \/ TypeRename
  \/ CommitRename
  \/ Escape
  \/ SetTabColor
  \/ LanguageChange

SpecMeta == Init /\ [][NextMeta]_vars

\* the closed-tab history and its panel
NextHistory ==
  \/ CreateTab(MaxHistoryIds)
  \/ CreateTabWith(MaxHistoryIds)
  \/ CloseActiveTab(MaxHistoryIds)
  \/ CloseTabButton(MaxHistoryIds)
  \/ Reopen(MaxHistoryIds)
  \/ Reload
  \/ HistoryToggle
  \/ ClickAway
  \/ Escape
  \/ HistoryTitleClick(MaxHistoryIds)
  \/ HistoryDeleteClick
  \/ HistoryClear

SpecHistory == Init /\ [][NextHistory]_vars

\* the history panel left open while tabs are closed and reopened by shortcut
NextPanel ==
  \/ CloseActiveTab(MaxPanelIds)
  \/ Reopen(MaxPanelIds)
  \/ HistoryToggle
  \/ ClickAway
  \/ HistoryTitleClick(MaxPanelIds)
  \/ HistoryDeleteClick

SpecPanel == Init /\ [][NextPanel]_vars

\* what a reload restores of the registry
NextReload ==
  \/ CreateTab(MaxReloadIds)
  \/ CloseActiveTab(MaxReloadIds)
  \/ Activate
  \/ RenameTab
  \/ SetTabColor
  \/ LanguageChange
  \/ Reload

SpecReload == Init /\ [][NextReload]_vars

\* debounced saves whose storage write may fail
NextQuota ==
  \/ CreateTab(MaxQuotaIds)
  \/ CloseActiveTab(MaxQuotaIds)
  \/ Edit
  \/ TimerFire
  \/ TimerFireThrows

SpecQuota == Init /\ [][NextQuota]_vars

\* closed tabs whose history write may fail
NextFloor ==
  \/ CloseActiveTab(MaxFloorIds)
  \/ CloseActiveTabQuota(MaxFloorIds)
  \/ Reload

SpecFloor == Init /\ [][NextFloor]_vars

\* the closed-tab history across reloads, with writes that may fail
NextDurable ==
  \/ CloseActiveTab(MaxDurableIds)
  \/ CloseActiveTabQuota(MaxDurableIds)
  \/ Reopen(MaxDurableIds)
  \/ HistoryToggle
  \/ HistoryTitleClick(MaxDurableIds)
  \/ HistoryDeleteClick
  \/ HistoryClear
  \/ Reload

SpecDurable == Init /\ [][NextDurable]_vars

\* initialization from a storage that was changed from outside
NextTamper ==
  \/ CreateTabWith(MaxTamperIds)
  \/ (nextHid <= MaxTamperCloses /\ CloseActiveTab(MaxTamperIds))
  \/ Reopen(MaxTamperIds)
  \/ Tamper
  \/ ((storage.tabsMeta = <<>> => CanAllocate(MaxTamperIds)) /\ Reload)

SpecTamper == Init /\ [][NextTamper]_vars

\* renames of tabs whose registry in memory is ahead of the stored one
NextRename ==
  \/ CreateTab(MaxRenameIds)
  \/ Edit
  \/ TimerFire
  \/ RenameTab

SpecRename == Init /\ [][NextRename]_vars

\* setTabColor with every kind of argument
NextColor ==
  \/ CreateTab(MaxColorIds)
  \/ CloseActiveTab(MaxColorIds)
  \/ SetTabColorWith
  \/ Reload

SpecColor == Init /\ [][NextColor]_vars

\* tabs created while other tabs exist, are edited or are being renamed
NextCreate ==
  \/ CreateTab(MaxCreateIds)
  \/ CreateTabWith(MaxCreateIds)
  \/ CloseActiveTab(MaxCreateIds)
  \/ Activate
  \/ RequestRename
  \/ TypeRename
  \/ CommitRename

SpecCreate == Init /\ [][NextCreate]_vars

\* keyboard navigation over a registry of up to MaxJumpIds tabs
NextJump ==
  \/ CreateTab(MaxJumpIds)
  \/ CloseActiveTab(MaxJumpIds)
  \/ NumericJump
  \/ CycleNext
  \/ CyclePrev

SpecJump == Init /\ [][NextJump]_vars

\* operations carried out while a name is being typed
NextCommit ==
  \/ CreateTab(MaxCommitIds)
  \/ CloseActiveTab(MaxCommitIds)
  \/ Reopen(MaxCommitIds)
  \/ NumericSwitch
  \/ RequestRename
  \/ TypeRename

SpecCommit == Init /\ [][NextCommit]_vars

\* a long run of closed tabs: the capacity of the history
NextEvict ==
  \/ CloseActiveTab(MaxEvictIds)
  \/ Reload

SpecEvict == Init /\ [][NextEvict]_vars

\* save timers across tab switches; the event loop runs a due timer callback
NextSwitch ==
  \/ CreateTab(MaxSwitchIds)
  \/ CloseActiveTab(MaxSwitchIds)
  \/ Activate
  \/ Edit
  \/ TimerFire

SpecSwitch == Init /\ [][NextSwitch]_vars /\ WF_vars(TimerFire)

----------------------------------------------------------------------------
(* The registry is never empty, and the active id resolves *)

\* C1: the registry holds at least one tab in every state, and closing the sole
\* remaining tab leaves exactly one tab, with an id other than the closed one.
C1_RegistryNeverEmpty ==
  /\ Len(tabs) >= 1
  /\ (last.op = "closeTab" /\ last.n = 1) =>
       /\ Len(tabs) = 1
       /\ tabs[1].id # last.id

\* the sole tab was closed and a fresh tab took its place
C1_SoleTabClosed ==
  /\ last.op = "closeTab"
  /\ last.n = 1
  /\ Len(tabs) = 1
  /\ closedHistory # <<>>

\* C2: in every state activeTabId is the id of exactly one tab of the registry.
C2_ActiveTabResolves ==
  Cardinality({i \in 1..Len(tabs) : tabs[i].id = activeTabId}) = 1

\* the active tab of a registry of several tabs was closed
C2_ActiveTabClosed ==
  /\ last.op = "closeTab"
  /\ last.n >= 2
  /\ last.from = last.id
  /\ activeTabId # last.id

----------------------------------------------------------------------------
(* The save scheduler *)

\* C3: closing the sole tab while it is dirty with the unsaved content "draft"
\* (its save timer still pending) leaves one new untitled tab with a new id, and
\* the newest history entry has the closed tab's name and the content "draft".
C3_SoleDirtyTabKeepsDraft ==
  (/\ last.op = "closeTab"
   /\ last.n = 1
   /\ last.snap.id = last.id
   /\ last.snap.dirty = "true"
   /\ last.snap.content = "draft"
   /\ HasPendingTimer(St, last.id)) =>
    /\ Len(tabs) = 1
    /\ tabs[1].id # last.id
    /\ tabs[1].name = <<>>
    /\ closedHistory # <<>>
    /\ closedHistory[1].name = last.snap.name
    /\ closedHistory[1].value = "draft"

\* C4: a save timer that fires for a tab that is no longer in the registry writes
\* nothing: afterwards storage has no model:<id> entry for that id.
C4_LateTimerIsNoOp ==
  (last.op = "timerFire" /\ ~HasTab(St, last.id)) => last.id \notin DOMAIN storage.model

DirtyOf(seq, id) == {seq[i].dirty : i \in {j \in 1..Len(seq) : seq[j].id = id}}

\* what holds of the scheduler in every state
C9_State ==
  /\ \A id \in TabIds(St) :
       HasPendingTimer(St, id) =>
         /\ Cardinality(TimersOf(St, id)) = 1
         /\ id \in DOMAIN models
         /\ \A i \in TimersOf(St, id) : timers[i].value = models[id]
         /\ DirtyOf(tabs, id) = {"true"}
  /\ (last.op = "edit") =>
       /\ HasPendingTimer(St, last.id)
       /\ DirtyOf(tabs, last.id) = {"true"}
  /\ (last.op = "timerFire" /\ HasTab(St, last.id) /\ last.id \in DOMAIN models) =>
       /\ last.id \in DOMAIN storage.model
       /\ storage.model[last.id] = models[last.id]
       /\ DirtyOf(tabs, last.id) = {"false"}
       /\ ~HasPendingTimer(St, last.id)

\* what holds of every step
C9_Step ==
  /\ C9_State'
  /\ last'.op = "edit" => storage'.model = storage.model
  /\ \A id \in TabIds(St) :
       (DirtyOf(tabs, id) = {"true"} /\ DirtyOf(tabs', id) = {"false"}) =>
         \/ last'.op = "timerFire" /\ last'.id = id
         \/ last'.op = "reload"

\* C9: content changes to a tab while its save timer is pending write nothing to
\* storage and leave one pending timer holding the latest content; when it fires
\* it writes that content once, and only then (or by a reload) does the tab's
\* dirty flag, true since the first change, become false.
C9_DebounceWritesOnce == [][C9_Step]_vars

\* a timer fired right after a content change that had rescheduled it
C9_BurstFlushed ==
  /\ last.op = "timerFire"
  /\ last.n = 2
  /\ HasTab(St, last.id)
  /\ storage.model[last.id] = "draft"

\* C10: at most one save timer is pending per tab id, and it is the one
\* saveTimeouts remembers for that id.
C10_OneTimerPerTab ==
  \A i, j \in 1..Len(timers) :
    /\ timers[i].id = timers[j].id => i = j
    /\ timers[i].id \in DOMAIN saveTimeouts
    /\ saveTimeouts[timers[i].id] = timers[i].h

\* a content change has cancelled the tab's earlier timer and scheduled a new one
C10_TimerRescheduled ==
  /\ last.op = "edit"
  /\ last.n = 1
  /\ Cardinality(TimersOf(St, last.id)) = 1

\* C5: the tabs persisted under tabsMetaV1 never carry the dirty flag, and no tab
\* is dirty right after a reload.
C5_DirtyNeverPersisted ==
  /\ \A i \in 1..Len(storage.tabsMeta) : storage.tabsMeta[i].dirty = "unset"
  /\ last.op = "reload" => \A i \in 1..Len(tabs) : tabs[i].dirty # "true"

----------------------------------------------------------------------------
(* The closed-tab history *)

\* C6: createTab(N, L, C), closeTab of that tab, then reopenClosedTab yields a new
\* active tab with the closed tab's name, language, color and content, and with an
\* id other than the closed tab's.
C6_RoundTrip ==
  (last.op = "reopen" /\ last.chain = 3) =>
    /\ last.id # NoId
    /\ last.id # last.snap.id
    /\ HasTab(St, last.id)
    /\ activeTabId = last.id
    /\ TabSnap(St, last.id).name = last.snap.name
    /\ TabSnap(St, last.id).language = last.snap.language
    /\ TabSnap(St, last.id).color = last.snap.color
    /\ TabSnap(St, last.id).content = last.snap.content
    /\ editorModel = last.id

\* a tab created with a name, a language, a color and a content of its own has
\* been closed and reopened
C6_RoundTripDone ==
  /\ last.op = "reopen"
  /\ last.chain = 3
  /\ last.snap.name = <<"a">>
  /\ last.snap.language = "javascript"
  /\ last.snap.color = TAG_RED
  /\ last.snap.content = "draft"
  /\ HasTab(St, last.id)

InHistory(hid) == \E i \in 1..Len(closedHistory) : closedHistory[i].hid = hid

\* C7: a reopen operation (reopenClosedTab, or a title click in the panel) that
\* reinstates an entry finds that entry in the closed-tab history at that moment:
\* an entry that has left the history is never reinstated.
C7_NoReinstateAfterLeaving ==
  [][(last'.op \in {"reopen", "historyTitleClick"} /\ last'.id # NoId) =>
       InHistory(last'.hid)]_vars

\* C8: reopenClosedTab removes exactly the first (most recent) entry of the history
\* and reinstates it as a new active tab; with an empty history it leaves the
\* registry and the active tab as they were.
C8_ReopenPopsMostRecent ==
  [][last'.op = "reopen" =>
       IF closedHistory = <<>>
       THEN /\ tabs' = tabs
            /\ activeTabId' = activeTabId
       ELSE /\ closedHistory' = Tail(closedHistory)
            /\ last'.hid = closedHistory[1].hid
            /\ Len(tabs') = Len(tabs) + 1
            /\ SubSeq(tabs', 1, Len(tabs)) = tabs
            /\ tabs'[Len(tabs')].id = last'.id
            /\ tabs'[Len(tabs')].id \notin TabIds(St)
            /\ tabs'[Len(tabs')].name = closedHistory[1].name
            /\ tabs'[Len(tabs')].language = closedHistory[1].language
            /\ tabs'[Len(tabs')].color = closedHistory[1].color
            /\ activeTabId' = last'.id]_vars

----------------------------------------------------------------------------
(* Save timers and tab switches *)

TimerOf(s, id) == {s.timers[i] : i \in TimersOf(s, id)}

Saved(id) ==
  /\ id \in DOMAIN storage.model
  /\ id \in DOMAIN models
  /\ storage.model[id] = models[id]

\* a step that activates a tab leaves every pending timer and the stored contents
\* as they were; a content change leaves the timers of the other tabs as they were
C11_Step ==
  /\ last'.op = "setActive" =>
       /\ timers' = timers
       /\ saveTimeouts' = saveTimeouts
       /\ storage'.model = storage.model
  /\ last'.op = "edit" =>
       \A id \in TabIds(St) \ {last'.id} : TimerOf(St', id) = TimerOf(St, id)

\* tab id is open, not active, and its save timer is pending
PendingInBackground(id) ==
  /\ HasTab(St, id)
  /\ activeTabId # id
  /\ HasPendingTimer(St, id)

\* C11: activating another tab neither flushes nor cancels a pending save timer,
\* a content change cancels no timer of another tab, and a tab left with a pending
\* timer eventually has model:<id> equal to its buffer, unless it is closed or
\* changed again first (which restarts its own debounce).
C11_TimerSurvivesSwitch ==
  /\ [][C11_Step]_vars
  /\ \A id \in 1..(MaxSwitchIds + 1) :
       PendingInBackground(id) ~>
         \/ Saved(id)
         \/ ~HasTab(St, id)
         \/ last.op = "edit" /\ last.id = id

\* the timer of a tab fired while a tab created before it was active: the user
\* had switched away from it while its timer was pending
C11_BackgroundTabSaved ==
  /\ last.op = "timerFire"
  /\ HasTab(St, last.id)
  /\ HasTab(St, activeTabId)
  /\ last.id > activeTabId
  /\ storage.model[last.id] = "draft"
  /\ Saved(last.id)

----------------------------------------------------------------------------
(* Content entries, buffers and the editor binding *)

\* C12: every tab persisted under tabsMetaV1 has a model:<id> entry in storage,
\* and after closeTab the closed tab's entry is gone.
C12_PersistedTabHasContent ==
  /\ \A i \in 1..Len(storage.tabsMeta) : storage.tabsMeta[i].id \in DOMAIN storage.model
  /\ last.op = "closeTab" => last.id \notin DOMAIN storage.model

\* C13: after closeTab every id in the buffer cache is the id of a tab of the
\* registry (the closed tab's buffer has been disposed and dropped).
C13_ClosedTabBufferDropped ==
  last.op = "closeTab" => DOMAIN models \subseteq TabIds(St)

\* C14: in every state the editor shows the buffer cached under activeTabId.
C14_EditorShowsActiveBuffer ==
  /\ activeTabId \in DOMAIN models
  /\ editorModel = activeTabId
  /\ HasTab(St, editorModel)

\* the user switched from one open tab to another, both with a cached buffer
C14_Rebound ==
  /\ last.op = "setActive"
  /\ last.from # last.id
  /\ last.from \in DOMAIN models
  /\ HasTab(St, last.from)
  /\ editorModel = last.id

----------------------------------------------------------------------------
(* The history's capacity, the next active tab, ids *)

Min(a, b) == IF a <= b THEN a ELSE b

\* C15: the history holds at most MAX_HISTORY entries, newest first; after n
\* closed tabs it holds exactly the newest Min(n, MAX_HISTORY) of them, so after
\* MAX_HISTORY + 5 it holds MAX_HISTORY and the 5 oldest are gone.
C15_HistoryBounded ==
  /\ Len(closedHistory) <= MAX_HISTORY
  /\ Len(closedHistory) = Min(nextHid - 1, MAX_HISTORY)
  /\ \A i \in 1..Len(closedHistory) : closedHistory[i].hid = nextHid - i
  /\ storage.history = closedHistory

\* MAX_HISTORY + 5 tabs have been closed
C15_OldestDropped ==
  /\ nextHid - 1 = MAX_HISTORY + 5
  /\ Len(closedHistory) = MAX_HISTORY
  /\ closedHistory[1].hid = MAX_HISTORY + 5
  /\ closedHistory[MAX_HISTORY].hid = 6

\* C16: closeTab of the active tab, at index i of two or more tabs, removes that tab
\* and keeps the others in order; the tab that was at i + 1 becomes active, or the
\* one at i - 1 when the closed tab was the last.
C16_NextActiveAfterClose ==
  [][(last'.op = "closeTab" /\ last'.n >= 2 /\ last'.from = last'.id) =>
       LET i == TabIndex(St, last'.id)
       IN  /\ i >= 1
           /\ tabs' = RemoveAt(tabs, i)
           /\ activeTabId' = IF i < Len(tabs) THEN tabs[i + 1].id ELSE tabs[i - 1].id
           /\ activeTabId' = IF i <= Len(tabs') THEN tabs'[i].id ELSE tabs'[i - 1].id]_vars

\* the active tab was closed from between two others (tabs are appended with
\* growing ids): the one after it is now active
C16_MiddleTabClosed ==
  /\ last.op = "closeTab"
  /\ last.n = 3
  /\ last.from = last.id
  /\ Len(tabs) = 2
  /\ tabs[1].id < last.id
  /\ last.id < tabs[2].id
  /\ activeTabId = tabs[2].id

\* C17: the ids of the registry are pairwise different, and an id that enters the
\* registry is the result of a uuid() call of that very step (ids are numbered in
\* the order uuid() returns them), so it is none of the ids that were ever there.
C17_IdsUniqueNeverReused ==
  [][/\ Cardinality(TabIds(St')) = Len(tabs')
     /\ TabIds(St') \subseteq 1..(nextUuid' - 1)
     /\ nextUuid' >= nextUuid
     /\ \A id \in TabIds(St') \ TabIds(St) : id >= nextUuid]_vars

\* a closed tab was reopened beside another tab: its id is the latest uuid()
C17_ReopenedUnderNewId ==
  /\ last.op = "reopen"
  /\ HasTab(St, last.id)
  /\ last.id = nextUuid - 1
  /\ Len(tabs) >= 2
  /\ nextHid >= 2

\* C18: the tab that replaces a closed sole tab has the closed tab's language, the
\* default color and an empty name.
C18_ReplacementTabDefaults ==
  (last.op = "closeTab" /\ last.n = 1 /\ last.snap.id = last.id) =>
    /\ Len(tabs) = 1
    /\ tabs[1].name = <<>>
    /\ tabs[1].language = last.snap.language
    /\ tabs[1].color = DEFAULT_TAG_COLOR

----------------------------------------------------------------------------
(* The history panel *)

\* C19: a title click in the panel removes from the history exactly the entry of
\* the clicked row, leaves the other entries in place and in order, and reinstates
\* that entry as a new active tab with its name, language, color and content.
C19_PanelReopensClickedEntry ==
  [][last'.op = "historyTitleClick" =>
       /\ InHistory(last'.hid)
       /\ LET i == HistoryIndex(St, last'.hid)
              entry == closedHistory[i]
          IN  /\ closedHistory' = RemoveAt(closedHistory, i)
              /\ storage'.history = closedHistory'
              /\ last'.id \notin TabIds(St)
              /\ HasTab(St', last'.id)
              /\ activeTabId' = last'.id
              /\ TabSnap(St', last'.id).name = entry.name
              /\ TabSnap(St', last'.id).language = entry.language
              /\ TabSnap(St', last'.id).color = entry.color
              /\ TabSnap(St', last'.id).content = entry.value]_vars

\* C20: a delete click in the panel removes from the history exactly the entry of
\* the clicked row and changes neither the registry nor the active tab, and a
\* reopenClosedTab that follows does not reinstate the deleted entry.
C20_PanelDeleteDiscards ==
  [][/\ last'.op = "historyDeleteClick" =>
          /\ tabs' = tabs
          /\ activeTabId' = activeTabId
          /\ InHistory(last'.hid)
          /\ closedHistory' = RemoveAt(closedHistory, HistoryIndex(St, last'.hid))
     /\ (last.op = "historyDeleteClick" /\ last'.op = "reopen" /\ last'.id # NoId) =>
          last'.hid # last.hid]_vars

\* C21: the Clear button of the panel leaves the history and the list stored under
\* closedHistoryV1 empty, and the registry and the active tab as they were.
C21_ClearEmptiesHistory ==
  [][last'.op = "historyClear" =>
       /\ closedHistory' = <<>>
       /\ storage'.history = <<>>
       /\ tabs' = tabs
       /\ activeTabId' = activeTabId
       /\ storage'.tabsMeta = storage.tabsMeta]_vars

\* a history of two entries has been cleared
C21_HistoryCleared ==
  /\ last.op = "historyClear"
  /\ last.n = 2
  /\ closedHistory = <<>>
  /\ storage.history = <<>>

----------------------------------------------------------------------------
(* Storage write failures *)

\* C22: a save timer whose write fails for an open tab changes nothing in storage,
\* leaves the tab dirty and leaves no timer pending for it; the next content
\* change of a tab schedules one timer with the current content, and a timer that
\* fires with a successful write leaves storage equal to the buffer and the tab clean.
C22_FailedSaveNotRetried ==
  [][/\ (last'.op = "timerFireThrows" /\ HasTab(St, last'.id)) =>
          /\ storage' = storage
          /\ tabs' = tabs
          /\ DirtyOf(tabs', last'.id) = {"true"}
          /\ ~HasPendingTimer(St', last'.id)
     /\ last'.op = "edit" =>
          /\ Cardinality(TimersOf(St', last'.id)) = 1
          /\ \A i \in TimersOf(St', last'.id) : timers'[i].value = models'[last'.id]
          /\ DirtyOf(tabs', last'.id) = {"true"}
     /\ (last'.op = "timerFire" /\ HasTab(St, last'.id) /\ last'.id \in DOMAIN models) =>
          /\ last'.id \in DOMAIN storage'.model
          /\ storage'.model[last'.id] = models'[last'.id]
          /\ DirtyOf(tabs', last'.id) = {"false"}]_vars

\* a save failed, the tab was changed again and the save that followed succeeded
C22_SavedAfterFailure ==
  /\ last.op = "timerFire"
  /\ last.chain = 3
  /\ HasTab(St, last.id)
  /\ DirtyOf(tabs, last.id) = {"false"}
  /\ Saved(last.id)

\* C23: when the write of the history fails k times in a row, the entries of the
\* history with the new entry (n0 of them) are kept from the newest on, the oldest
\* being dropped one per failed retry: Min(k, n0 - 5) are dropped when n0 > 5 and
\* none otherwise, so at least Min(n0, 5) stay; the list is stored when a retry
\* succeeded and storage is left as it was when none did.
C23_DropOldestDownToFloor ==
  [][last'.op = "closeTabQuota" =>
       LET k == last'.n
           n0 == Min(Len(closedHistory) + 1, MAX_HISTORY)
           room == IF n0 > HISTORY_FLOOR THEN n0 - HISTORY_FLOOR ELSE 0
           left == Len(closedHistory')
       IN  /\ left >= Min(n0, HISTORY_FLOOR)
           /\ n0 - left = Min(k, room)
           /\ closedHistory'[1].hid = last'.hid
           /\ Tail(closedHistory') = SubSeq(closedHistory, 1, left - 1)
           /\ storage'.history = IF room >= k THEN closedHistory' ELSE storage.history]_vars

\* the write failed twice with 6 entries to store: one was dropped, 5 are left
\* and the stored list is the old one
C23_StoppedAtFloor ==
  /\ last.op = "closeTabQuota"
  /\ last.n = 2
  /\ Len(closedHistory) = HISTORY_FLOOR
  /\ storage.history # closedHistory
  /\ closedHistory[1].hid - closedHistory[HISTORY_FLOOR].hid = HISTORY_FLOOR - 1

----------------------------------------------------------------------------
(* Reload *)

\* the persisted fields of the tabs of a registry
TabsMeta(seq) ==
  [i \in 1..Len(seq) |->
     [id |-> seq[i].id, name |-> seq[i].name, language |-> seq[i].language,
      color |-> seq[i].color]]

\* C24: a reload rebuilds the registry with the same ids in the same order, with
\* the same names, languages and colors, and with the same active tab id.
C24_ReloadRestoresRegistry ==
  [][last'.op = "reload" =>
       /\ TabsMeta(tabs') = TabsMeta(tabs)
       /\ activeTabId' = activeTabId
       /\ editorModel' = activeTabId]_vars

\* a reload with two tabs, the first one active, renamed, red and in javascript
C24_ReloadedCustomTabs ==
  /\ last.op = "reload"
  /\ Len(tabs) = 2
  /\ activeTabId = tabs[1].id
  /\ tabs[1].name = <<"a">>
  /\ tabs[1].color = TAG_RED
  /\ tabs[1].language = "javascript"


\* C25: the closed-tab history is durable. Every push, reopen, removal or clear
\* that writes the history leaves the list stored under closedHistoryV1 equal to
\* the history in memory (a close whose write fails writes nothing or the list it
\* kept); a reload restores the history from that list, newest first, and a
\* reopen right after a reload reinstates its first entry, the most recently
\* closed tab still in the history, and removes it from memory and storage.
HistoryWriters == {"closeTab", "reopen", "historyTitleClick", "historyDeleteClick", "historyClear"}

NewestFirst(seq) == \A i, j \in 1..Len(seq) : i < j => seq[i].hid > seq[j].hid

StoredActiveResolves ==
  /\ storage.json.tabsMeta = "list"
  /\ storage.active \in StoredIds(storage)

C26_ActiveFallsBackToFirst ==
  [][last'.op = "reload" =>
       /\ activeTabId' = IF StoredActiveResolves THEN storage.active ELSE tabs'[1].id
       /\ storage'.active = activeTabId'
       /\ editorModel' = activeTabId'
       /\ (storage.json.tabsMeta = "list" /\ storage.tabsMeta # <<>>)
            => tabs'[1].id = storage.tabsMeta[1].id]_vars

\* a reload found two stored tabs and an active id that is neither of them: the
\* first tab is active and its id is stored
C26_FellBackToFirst ==
  /\ last.op = "reload"
  /\ last.id \notin TabIds(St) \cup {NoId}
  /\ Len(tabs) = 2
  /\ activeTabId = tabs[1].id
  /\ storage.active = tabs[1].id


\* C27: a text under tabsMetaV1 or closedHistoryV1 that is no JSON, or JSON that
\* is no list, is treated as absent: initialization starts from the default tab
\* and from an empty history, and a later closeTab completes: the tab leaves the
\* registry and the newest history entry, in memory and in storage, holds its
\* content.
C27_CorruptTreatedAsAbsent ==
  [][/\ (last'.op = "reload" /\ storage.json.tabsMeta # "list") =>
           /\ Len(tabs') = 1
           /\ tabs'[1].name = <<>> /\ tabs'[1].color = DEFAULT_TAG_COLOR
           /\ storage'.tabsMeta = tabs'
     /\ (last'.op = "reload" /\ storage.json.history # "list") => closedHistory' = <<>>
     /\ last'.op = "closeTab" =>
           /\ ~HasTab([tabs |-> tabs'], last'.id)
           /\ closedHistory' # <<>>
           /\ closedHistory'[1].value = last'.snap.content
           /\ storage'.history = closedHistory']_vars


\* C28: renameTab is idempotent. A call with a name whose normalized form is the
\* name the tab has changes nothing, in memory or in localStorage: it writes
\* tabsMetaV1 not at all, so the second of two renames to the same name does
\* not write.
C28_RenameIdempotent ==
  [][(last'.op = "renameTab" /\ last'.n = 1) =>
       UNCHANGED <<tabs, activeTabId, models, editorModel, storage, closedHistory,
                   closedHistoryIsArray, closedStack, saveTimeouts, timers,
                   renameState, pendingRenameId, historyPanel, nextUuid, nextHid>>]_vars

\* a tab that was renamed to "a" is renamed to a name that normalizes to "a" while
\* the stored registry is behind the one in memory: a write would have shown
C28_RenamedToSameName ==
  /\ last.op = "renameTab" /\ last.n = 1
  /\ getTab(St, last.id).name = <<"a">>
  /\ storage.tabsMeta # tabs


\* C29: whatever setTabColor is given, the color of every tab, in memory and in
\* the stored registry, is a member of the fixed palette (of which the neutral
\* default is one).
C29_ColorInPalette ==
  /\ \A i \in 1..Len(tabs) : tabs[i].color \in TAG_COLORS
  /\ \A i \in 1..Len(storage.tabsMeta) : storage.tabsMeta[i].color \in TAG_COLORS


\* what a createTab step does, given the registry it appends to
C30_Step(before) ==
  LET id == last'.id
  IN  /\ Len(tabs') = Len(before) + 1
      /\ SubSeq(tabs', 1, Len(before)) = before
      /\ id \notin TabIds(St)
      /\ tabs'[Len(tabs')].id = id
      /\ storage'.tabsMeta = tabs'
      /\ id \in DOMAIN storage'.model
      /\ storage'.model[id] = last'.snap.content
      /\ activeTabId' = id
      /\ storage'.active = id
      /\ editorModel' = id

\* C30 as stated: createTab appends exactly one new tab at the end of the
\* registry and leaves the existing tabs and their order unchanged, persists the
\* metadata, stores the initial content under model:<id> and makes the new tab
\* the active tab.
C30_CreateLeavesTabsUnchanged ==
  [][last'.op = "createTab" => C30_Step(tabs)]_vars

\* C30 amended: createTab first commits a rename that is in progress, which can
\* change the name of the tab being renamed; it then appends exactly one new tab
\* at the end of that registry, persists the metadata, stores the initial
\* content under model:<id> and makes the new tab the active tab.
C30_CreateAppendsAfterCommit ==
  [][last'.op = "createTab" => C30_Step(commitRename(St).tabs)]_vars

\* a third tab was created with content while the first tab was being renamed
\* to "a": the first tab has the new name, the new tab is last and active
C30_CreatedWhileRenaming ==
  /\ last.op = "createTab" /\ last.n = 1
  /\ Len(tabs) = 3
  /\ tabs[1].name = <<"a">>
  /\ tabs[3].id = last.id /\ activeTabId = last.id
  /\ storage.model[last.id] = "draft"


\* C31: the numeric jump. Key 9 makes the last tab of the registry active
\* whatever the number of tabs; a key n in 1..8 makes the n-th tab active when
\* the registry has at least n tabs and changes nothing otherwise. The registry
\* itself is never changed.
C31_NumericJump ==
  [][last'.op = "numericJump" =>
       LET num == last'.n
       IN  /\ tabs' = tabs
           /\ activeTabId' = IF num = 9 THEN tabs[Len(tabs)].id
                              ELSE IF num <= Len(tabs) THEN tabs[num].id
                              ELSE activeTabId
           /\ storage'.active = activeTabId'
           /\ editorModel' = activeTabId']_vars

\* key 9 on a registry of five tabs, the first of which was active: the fifth
\* tab is active
C31_NineOnFiveTabs ==
  /\ last.op = "numericJump" /\ last.n = 9
  /\ Len(tabs) = 5
  /\ last.from = tabs[1].id
  /\ activeTabId = tabs[5].id


\* cycleNext applied k times
RECURSIVE CycleNextTimes(_, _)
CycleNextTimes(s, k) == IF k = 0 THEN s ELSE CycleNextTimes(cycleNext(s), k - 1)

\* C32: cyclic navigation. With the active tab at position i of n tabs (counted
\* from 0), next activates position (i + 1) mod n and previous position
\* (i - 1) mod n, wrapping at both ends, and the registry is unchanged; in every
\* state next followed by previous, and previous followed by next, lead back to
\* the active tab, as do n applications of next; with a single tab the active
\* tab is unchanged.
C32_CyclicNavigation ==
  /\ [](/\ cyclePrev(cycleNext(St)).activeTabId = activeTabId
        /\ cycleNext(cyclePrev(St)).activeTabId = activeTabId
        /\ CycleNextTimes(St, Len(tabs)).activeTabId = activeTabId
        /\ Len(tabs) = 1 => /\ cycleNext(St).activeTabId = activeTabId
                            /\ cyclePrev(St).activeTabId = activeTabId)
  /\ [][LET n == Len(tabs)
            i == TabIndex(St, activeTabId) - 1
        IN  /\ last'.op = "cycleNext" =>
                  tabs' = tabs /\ activeTabId' = tabs[((i + 1) % n) + 1].id
            /\ last'.op = "cyclePrev" =>
                  tabs' = tabs /\ activeTabId' = tabs[((i + n - 1) % n) + 1].id
            /\ (last.op = "cycleNext" /\ last'.op = "cyclePrev") =>
                  activeTabId' = last.from]_vars

\* next on the last of three tabs wrapped to the first
C32_WrappedToFirst ==
  /\ last.op = "cycleNext"
  /\ Len(tabs) = 3
  /\ last.from = tabs[3].id
  /\ activeTabId = tabs[1].id


\* C33: closeTab captures the content before it deletes the storage key. After
\* every closeTab storage holds no model:<id> key for the closed id, and when
\* the registry had two or more tabs the newest history entry, in memory and in
\* storage, holds the content the closed tab showed: its live buffer when it had
\* one, unsaved edits included, not the older stored content.
C33_ContentCapturedBeforeDelete ==
  [][last'.op = "closeTab" =>
       /\ last'.id \notin DOMAIN storage'.model
       /\ last'.n >= 2 =>
            /\ closedHistory' # <<>>
            /\ closedHistory'[1].hid = last'.hid
            /\ closedHistory'[1].value = last'.snap.content
            /\ last'.id \in DOMAIN models => closedHistory'[1].value = models[last'.id]
            /\ storage'.history = closedHistory']_vars

\* one of two tabs was closed while its edit "draft" was waiting for its timer:
\* the history entry holds "draft" and the key is gone
C33_UnsavedDraftCaptured ==
  /\ last.op = "closeTab" /\ last.n = 2
  /\ last.snap.dirty = "true"
  /\ last.snap.content = "draft"
  /\ HasPendingTimer(St, last.id)
  /\ closedHistory[1].value = "draft"
  /\ last.id \notin DOMAIN storage.model


\* the tab that was being renamed carries the normalized text that was typed:
\* in the registry and in tabsMetaV1 when it is still open, else in the newest
\* history entry
CommittedBy(rs, tabsAfter, stored, historyAfter) ==
  LET name == normalizeTabName(rs.input)
  IN  /\ \A i \in 1..Len(tabsAfter) : tabsAfter[i].id = rs.tabId => tabsAfter[i].name = name
      /\ \A i \in 1..Len(stored) : stored[i].id = rs.tabId => stored[i].name = name
      /\ (\A i \in 1..Len(tabsAfter) : tabsAfter[i].id # rs.tabId) =>
            (historyAfter # <<>> /\ historyAfter[1].name = name)

\* C34: an activation of another tab while an inline rename is in progress
\* commits the rename: the typed name, normalized, is the name of the renamed
\* tab in the registry and in tabsMetaV1, the rename has ended and the other tab
\* is active. createTab, closeTab and reopen commit it in the same way before
\* they change the registry.
C34_RenameCommittedFirst ==
  [][(Renaming /\ \/ last'.op \in {"createTab", "closeTab", "reopen"}
                  \/ last'.op = "numericSwitch" /\ activeTabId' # renameState.tabId) =>
       /\ renameState' = NoRename
       /\ CommittedBy(renameState, tabs', storage'.tabsMeta, closedHistory')]_vars

\* the first tab was being renamed to "a" when a numeric key activated the
\* second tab: the first tab is named "a", the second is active, no rename
C34_CommittedByActivation ==
  /\ last.op = "numericSwitch" /\ last.n = 1
  /\ Len(tabs) >= 2
  /\ last.from = tabs[1].id
  /\ tabs[1].name = <<"a">>
  /\ storage.tabsMeta[1].name = <<"a">>
  /\ activeTabId = tabs[2].id
  /\ renameState = NoRename


\* C35: whenever a tab is marked dirty a save timer is pending for its id (no
\* write fails in SpecSave, so a failed save attempt cannot be the reason): no
\* state, the state right after a reload included, has a dirty tab without a
\* pending timer.
C35_DirtyHasPendingTimer ==
  \A i \in 1..Len(tabs) : tabs[i].dirty = "true" => HasPendingTimer(St, tabs[i].id)


\* C36: whenever an open tab is not marked dirty and has a buffer, the content
\* stored under model:<id> (the empty default when the key is missing) equals
\* the content of the buffer.
C36_CleanTabMatchesStorage ==
  \A i \in 1..Len(tabs) :
    (tabs[i].dirty # "true" /\ tabs[i].id \in DOMAIN models) =>
      models[tabs[i].id] = OrDefaultContent(getStoredModel(St, tabs[i].id))


\* the edit "draft" of the second of two tabs was saved by its timer: the tab is
\* clean and storage holds "draft"
C36_SavedTabIsClean ==
  /\ last.op = "timerFire"
  /\ Len(tabs) = 2
  /\ last.id = tabs[2].id
  /\ tabs[2].dirty = "false"
  /\ last.id \in DOMAIN models
  /\ models[last.id] = "draft"
  /\ getStoredModel(St, last.id) = "draft"


\* C37: renameState holds at most one rename; between operations the tab being
\* renamed is the active tab and a tab of the registry, and no deferred rename
\* request is pending. A rename requested for a tab that is not active makes
\* that tab active and starts its rename, its name in the input.
C37_RenameOnActiveTab ==
  /\ [](/\ Renaming => (renameState.tabId = activeTabId /\ HasTab(St, renameState.tabId))
        /\ pendingRenameId = NoId)
  /\ [][(last'.op = "requestRename" /\ last'.id # activeTabId) =>
          /\ activeTabId' = last'.id
          /\ editorModel' = last'.id
          /\ pendingRenameId' = NoId
          /\ renameState' = [tabId |-> last'.id, input |-> getTab(St, last'.id).name]]_vars

\* a rename was requested for the first of two tabs while the second was
\* active: the first tab is active and is the one being renamed
C37_RenameActivatedTab ==
  /\ last.op = "requestRename"
  /\ Len(tabs) = 2
  /\ last.from = tabs[2].id
  /\ last.id = tabs[1].id
  /\ activeTabId = tabs[1].id
  /\ renameState.tabId = tabs[1].id
  /\ pendingRenameId = NoId


\* C38: closing a tab that is not the active one, in a registry of at least two
\* tabs, leaves activeTabId, the stored activeTabIdV1 and the buffer bound to
\* the editor as they were, and every other tab keeps its name, language,
\* colour and content.
C38_CloseInactiveFrame ==
  [][(last'.op = "closeTab" /\ last'.n >= 2 /\ last'.id # activeTabId) =>
       /\ activeTabId' = activeTabId
       /\ storage'.active = storage.active
       /\ editorModel' = editorModel
       /\ \A id \in TabIds(St) \ {last'.id} :
            LET before == TabSnap(St, id)
                after == TabSnap([tabs |-> tabs', models |-> models', storage |-> storage'], id)
            IN  /\ after.id = id
                /\ after.name = before.name
                /\ after.language = before.language
                /\ after.color = before.color
                /\ after.content = before.content]_vars

\* the first of two tabs was closed by its button while the second, which has
\* an unsaved edit, was active
C38_InactiveTabClosed ==
  /\ last.op = "closeTab"
  /\ last.n = 2
  /\ last.id # last.from
  /\ ~HasTab(St, last.id)
  /\ activeTabId = last.from
  /\ Len(tabs) = 1
  /\ activeTabId \in DOMAIN saveTimeouts


----------------------------------------------------------------------------
(* closeTab called with an id that is no tab of the registry *)

\* an id that uuid() never returns
UnknownId == 99

\* the id of a tab closed earlier, or an id that never was a tab's
CloseTabUnknown(max) ==
  /\ Len(tabs) = 1 => CanAllocate(max)
  /\ \E id \in ((1..(nextUuid - 1)) \ TabIds(St)) \cup {UnknownId} :
       /\ Install(closeTab(St, id))
       /\ last' = [Op("closeTabUnknown", id) EXCEPT !.hid = nextHid, !.n = Len(tabs)]

NextUnknown ==
  \/ CreateTab(MaxUnknownIds)
  \/ CloseActiveTab(MaxUnknownIds)
  \/ Edit
  \/ TimerFire
  \/ CloseTabUnknown(MaxUnknownIds)

SpecUnknown == Init /\ [][NextUnknown]_vars

\* C39: closeTab(id) with an id that is not in the registry changes nothing,
\* whatever the size of the registry, one tab included: the registry, the
\* active tab, the stored content and the history of closed tabs stay as they
\* were.
C39_UnknownIdIsNoOp ==
  [][last'.op = "closeTabUnknown" =>
       /\ tabs' = tabs
       /\ activeTabId' = activeTabId
       /\ models' = models
       /\ storage'.model = storage.model
       /\ storage'.tabsMeta = storage.tabsMeta
       /\ closedHistory' = closedHistory
       /\ closedStack' = closedStack
       /\ storage'.history = storage.history]_vars

\* the same for a registry of two tabs or more
C39_UnknownIdAmongSeveral ==
  [][(last'.op = "closeTabUnknown" /\ last'.n >= 2) =>
       /\ tabs' = tabs
       /\ activeTabId' = activeTabId
       /\ models' = models
       /\ storage' = storage
       /\ closedHistory' = closedHistory
       /\ closedStack' = closedStack]_vars


----------------------------------------------------------------------------
(* Inline rename ended by Escape or by a commit *)

NextCancel ==
  \/ CreateTab(MaxCancelIds)
  \/ CloseActiveTab(MaxCancelIds)
  \/ NumericSwitch
  \/ RequestRename
  \/ TypeRename
  \/ CommitRename
  \/ Escape

SpecCancel == Init /\ [][NextCancel]_vars

\* the names of the tabs ts, by id
NamesOf(ts) == [id \in {ts[i].id : i \in 1..Len(ts)} |->
                 (CHOOSE t \in {ts[i] : i \in 1..Len(ts)} : t.id = id).name]

\* C40: Escape during an inline rename ends the rename and leaves the registry,
\* the tab's name included, and the stored tabsMetaV1 as they were, whatever
\* text was typed; typing changes no name either. A name of a tab changes
\* only in a step that commits the rename in progress of that tab: Enter or
\* blur, or an operation that commits first.
C40_CancelKeepsName ==
  /\ [][(last'.op = "escape" /\ Renaming) =>
          /\ renameState' = NoRename
          /\ tabs' = tabs
          /\ storage'.tabsMeta = storage.tabsMeta]_vars
  /\ [][last'.op = "typeRename" =>
          /\ tabs' = tabs
          /\ storage'.tabsMeta = storage.tabsMeta]_vars
  /\ [][\A id \in DOMAIN NamesOf(tabs) \cap DOMAIN NamesOf(tabs') :
          NamesOf(tabs')[id] # NamesOf(tabs)[id] =>
            /\ Renaming
            /\ renameState.tabId = id
            /\ NamesOf(tabs')[id] = normalizeTabName(renameState.input)
            /\ last'.op \in {"commitRename", "createTab", "closeTab", "numericSwitch"}]_vars

\* Escape ended a rename whose typed text would have changed the name: the tab
\* still has no name, in the registry and in tabsMetaV1
C40_TypedTextDiscarded ==
  /\ last.op = "escape"
  /\ last.n = 1
  /\ ~Renaming
  /\ HasTab(St, last.id)
  /\ getTab(St, last.id).name = <<>>
  /\ \A i \in 1..Len(storage.tabsMeta) :
       storage.tabsMeta[i].id = last.id => storage.tabsMeta[i].name = <<>>

====
